---- MODULE Spec2Model ----
(***************************************************************************)
(* zedproxy: a reverse proxy that attaches a bearer credential to every    *)
(* outbound request, refreshes it lazily and replays a request once after  *)
(* an authorization rejection.                                             *)
(*                                                                         *)
(* Time is counted in ticks; Second is the number of ticks in time.Second. *)
(* Strings are sequences of one-character strings, so that                 *)
(* strings.TrimSpace is computed rather than assumed.                      *)
(***************************************************************************)
EXTENDS Integers, Sequences, FiniteSets, TLC

\* ------------------------------------------------------------------ bounds
NumReqs == 2          \* concurrent inbound requests
MaxTicks == 1         \* number of times the clock is observed to advance
MaxTTLIn == 2100      \* the buffer specification tries every lifetime up to this
MaxTTLSeconds == 400  \* and every whole number of seconds up to this

Reqs == 1..NumReqs

\* --------------------------------------------------------------- constants
Second == 1000                        \* time.Second, in ticks
defaultExpiryBuffer == 30 * Second
StatusOK == 200
StatusUnauthorized == 401
StatusInternalServerError == 500
StatusBadGateway == 502

\* ----------------------------------------------------------------- strings
SP == " "
Chars == {SP, "a", "b", "c"}

RECURSIVE TrimLeft(_)
TrimLeft(s) == IF s # <<>> /\ Head(s) = SP THEN TrimLeft(Tail(s)) ELSE s

RECURSIVE TrimRight(_)
TrimRight(s) ==
    IF s # <<>> /\ s[Len(s)] = SP THEN TrimRight(SubSeq(s, 1, Len(s) - 1)) ELSE s

\* strings.TrimSpace
TrimSpaceIdentity(s) == s
TrimSpace(s) == TrimRight(TrimLeft(s))

\* strings.TrimSpace(s) == "" (lines 92, 98, 211, 221, 305)
Blank(s) == TrimSpace(s) = <<>>

\* a string of no characters other than spaces
AllSpaces(s) == \A i \in 1 .. Len(s) : s[i] = SP

\* the header value "Bearer " + token; NoHeader is a request without one
NoHeader == <<>>
Bearer(tok) == <<"Bearer", tok>>

\* ------------------------------------------------------------------ errors
NoErr == "nil"
ErrTokenEmpty == "token is empty"
ErrRefreshNotConfigured == "token refresh is not configured"
ErrRefreshNon200 == "token refresh returned non-200"
ErrRefreshEmptyToken == "token refresh returned empty token"
ErrIO == "i/o failure"
ErrDecode == "json decode failure"
ErrGetBody == "GetBody failure"

\* the spec's EmptyCredential class
EmptyCredential(e) == e \in {ErrTokenEmpty, ErrRefreshEmptyToken}

\* ------------------------------------------------------------- environment
\* what the configured initial-fetch function may return
FetchResults == {<<>>, <<SP>>, <<"a">>, <<SP, "b", SP>>}
FetchKind(f) == IF AllSpaces(f) THEN "blank" ELSE "token"
\* what a configured refresh function / token endpoint may hand back
RefreshTokens == {<<>>, <<SP>>, <<"b">>, <<"c", SP>>}
ExpiresIns == {-1, 0, 2}
\* the credentials the backend accepts
Accepted == {<<"b">>}

\* responses and errors of a round trip
NoOutcome == [kind |-> "none", status |-> 0, err |-> NoErr]
Resp(s) == [kind |-> "resp", status |-> s, err |-> NoErr]
Fail(e) == [kind |-> "err", status |-> 0, err |-> e]

\* the backend of proxy_test.go: 200 for an accepted bearer credential, else 401
Backend(hdr) ==
    IF hdr # NoHeader /\ hdr[2] \in Accepted THEN Resp(StatusOK)
    ELSE Resp(StatusUnauthorized)

\* what one dispatch through the outbound transport can yield
TransportOutcomes(hdr) ==
    {Backend(hdr), Resp(StatusInternalServerError), Fail(ErrIO)}

\* request shapes: Body is nil, http.NoBody or data; GetBody is nil or set
Shapes == {<<"nil", "nil">>, <<"NoBody", "nil">>, <<"data", "nil">>, <<"data", "set">>}
\* what calling GetBody can yield
Regenerations == {"ok", "fail"}

\* ------------------------------------------------------------------- state
VARIABLES
    token,        \* tokenProvider.token
    refreshAt,    \* tokenProvider.refreshAt; 0 is the zero time.Time
    mu,           \* tokenProvider.mu: 0 when free, else the request holding it
    refreshKind,  \* tokenProvider.refresh: "none", "func" (WithTokenRefreshFunc), "url"
    fetched,      \* "none" without an initial-fetch function, else whether it
                  \* returned a "blank" string or a "token"
    now,          \* the clock read by time.Now()
    ticks,        \* how often the clock has advanced
    req,          \* per request in the proxy: position, context values, header, locals
    last,         \* the request answered last, as it was when RoundTrip returned
    committed,    \* history: the last fully installed <<token, refreshAt>>
    lastInstall,  \* history: <<expiresIn>> of the last setWithExpiry, or <<>>
    curOK,        \* history: every current() saw the token of a full pair
    bIn, bOut     \* buffer specification: the lifetime tried and the buffer computed

vars == <<token, refreshAt, mu, refreshKind, fetched, now, ticks, req, last,
          committed, lastInstall, curOK, bIn, bOut>>

\* ------------------------------------------------------- expiry arithmetic
\* setWithExpiry, lines 65-74: the buffer for expiresIn > 0
BufferNoTenth(expiresIn) ==
    LET b0 == defaultExpiryBuffer
        b2 == IF expiresIn < b0 THEN expiresIn \div 2 ELSE b0
        b3 == IF expiresIn >= 2 * Second /\ b2 < Second THEN Second ELSE b2
    IN  b3
BufferNoMidpoint(expiresIn) ==
    LET b0 == defaultExpiryBuffer
        b1 == IF expiresIn \div 10 > 0 /\ expiresIn \div 10 < b0
              THEN expiresIn \div 10 ELSE b0
        b3 == IF expiresIn >= 2 * Second /\ b1 < Second THEN Second ELSE b1
    IN  b3
Buffer(expiresIn) ==
    LET b0 == defaultExpiryBuffer
        b1 == IF expiresIn \div 10 > 0 /\ expiresIn \div 10 < b0
              THEN expiresIn \div 10 ELSE b0
        b2 == IF expiresIn < b1 THEN expiresIn \div 2 ELSE b1
        b3 == IF expiresIn >= 2 * Second /\ b2 < Second THEN Second ELSE b2
    IN  b3

\* setWithExpiry, lines 64-79: the deadline stored in refreshAt
RefreshAtForNoSentinel(t, expiresIn) ==
    IF expiresIn > 0 THEN (t + expiresIn) - Buffer(expiresIn) ELSE t + expiresIn
RefreshAtFor(t, expiresIn) ==
    IF expiresIn > 0 THEN (t + expiresIn) - Buffer(expiresIn) ELSE 0

\* ensureToken, line 98
NeedsRefreshAtDeadline(tok, ra, t) == Blank(tok) \/ (ra # 0 /\ t >= ra)
NeedsRefreshZeroExpires(tok, ra, t) == Blank(tok) \/ t > ra
NeedsRefresh(tok, ra, t) == Blank(tok) \/ (ra # 0 /\ t > ra)

\* ensureToken, lines 88-98: the cache is looked at after Lock has returned, not when
\* the caller arrived
StaleOnArrival(q, tok, ra, t) == q.waited \/ NeedsRefresh(tok, ra, t)
Stale(q, tok, ra, t) == NeedsRefresh(tok, ra, t)

\* ---------------------------------------------------------------- provider
\* sync.Mutex.Lock (lines 52, 88, 118) returns only when the mutex is free
MuLockNoWait(m) == TRUE
MuLock(m) == m = 0

\* the deferred sync.Mutex.Unlock (lines 89, 119) frees the mutex on every return
MuUnlockLeaked(m) == m
MuUnlock(m) == 0

\* ensureToken, lines 100-105, and forceRefresh, lines 122-129: a failed refresh
\* returns before setWithExpiry, and refreshAt stays what it was
FailedRefreshAtCleared(ra) == 0
FailedRefreshAt(ra) == ra

\* forceRefresh, line 121: p.refresh is called whatever the cache holds
ForceRefreshIfStale(tok, ra, t) == NeedsRefresh(tok, ra, t)
ForceRefreshCalls(tok, ra, t) == TRUE

\* the pairs a reader may see: the last full one, or the one being installed
FullPairs ==
    {committed} \cup
    {<<req[u].newTok, refreshAt>> : u \in {v \in Reqs : req[v].pc \in {"e_tok", "f_tok"}}}

\* WithTokenRefreshFunc, lines 198-207: the lifetime is always 0
WithTokenRefreshFunc(tok, err) == [tok |-> tok, ttl |-> 0, err |-> err]

\* fetchTokenFromURL, lines 280-314, on the token endpoint's answer
fetchTokenFromURL(h) ==
    IF h.neterr THEN [tok |-> <<>>, ttl |-> 0, err |-> ErrIO]
    ELSE IF h.status # StatusOK THEN [tok |-> <<>>, ttl |-> 0, err |-> ErrRefreshNon200]
    ELSE IF ~h.json THEN [tok |-> <<>>, ttl |-> 0, err |-> ErrDecode]
    ELSE IF Blank(h.access_token)
         THEN [tok |-> <<>>, ttl |-> 0, err |-> ErrRefreshEmptyToken]
    ELSE IF h.expires_in <= 0 THEN [tok |-> h.access_token, ttl |-> 0, err |-> NoErr]
    ELSE [tok |-> h.access_token, ttl |-> h.expires_in * Second, err |-> NoErr]

\* the answers of the token endpoint
HTTPAnswers ==
    {[neterr |-> TRUE, status |-> 0, json |-> FALSE, access_token |-> <<>>, expires_in |-> 0],
     [neterr |-> FALSE, status |-> StatusInternalServerError, json |-> FALSE,
      access_token |-> <<>>, expires_in |-> 0],
     [neterr |-> FALSE, status |-> StatusOK, json |-> FALSE,
      access_token |-> <<>>, expires_in |-> 0]}
    \cup
    {[neterr |-> FALSE, status |-> StatusOK, json |-> TRUE, access_token |-> t,
      expires_in |-> e] : t \in RefreshTokens, e \in ExpiresIns}

\* the refresh function returned a blank credential and no error
BlankResult(res) == res.err = NoErr /\ AllSpaces(res.tok)

\* what p.refresh(ctx) can return (lines 99, 121)
RefreshResults(kind) ==
    IF kind = "func"
    THEN {WithTokenRefreshFunc(t, NoErr) : t \in RefreshTokens}
         \cup {WithTokenRefreshFunc(<<>>, ErrIO)}
    ELSE {fetchTokenFromURL(h) : h \in HTTPAnswers}

\* newReverseProxy, lines 240-245: the cache after the initial fetch
InitialTokenRaw(f) == f
InitialToken(f) ==
    LET initial == TrimSpace(f) IN IF initial # <<>> THEN initial ELSE <<>>

NewRequest ==
    [pc |-> "director", hdr |-> NoHeader, ctxErr |-> NoErr, marked |-> FALSE,
     body |-> "unset", getBody |-> "unset", regen |-> "none",
     newTok |-> <<>>, seenOK |-> TRUE, hit |-> "none", at |-> 0, waited |-> FALSE,
     blank |-> FALSE, refreshCalls |-> 0, forceCalls |-> 0, dispatches |-> 0,
     sentBlank |-> FALSE, fault |-> FALSE, first |-> NoOutcome, firstClosed |-> FALSE,
     forced |-> <<>>, ferr |-> NoErr, result |-> NoOutcome, status |-> 0]

\* a request that has been answered and has left the proxy
Gone == [NewRequest EXCEPT !.pc = "gone"]

Init ==
    /\ refreshKind \in {"none", "func", "url"}
    /\ \/ /\ fetched = "none"
          /\ refreshKind # "none"                     \* line 236
          /\ token = <<>>
       \/ \E f \in FetchResults :
             /\ fetched = FetchKind(f)
             /\ token = InitialToken(f)
    /\ refreshAt = 0
    /\ mu = 0
    /\ now = 1
    /\ ticks = 0
    /\ req = [r \in Reqs |-> NewRequest]
    /\ last = NewRequest
    /\ committed = <<token, refreshAt>>
    /\ lastInstall = <<>>
    /\ curOK = TRUE
    /\ bIn = 0
    /\ bOut = 0

provider == <<token, refreshAt, mu, committed, lastInstall>>
config == <<refreshKind, fetched>>
clock == <<now, ticks>>
aside == <<curOK, bIn, bOut>>

\* newReverseProxy, lines 272-275: a failed round trip is rendered as 502; a
\* response is passed on with its status
ErrorHandler(o) == IF o.kind = "err" THEN StatusBadGateway ELSE o.status

\* RoundTrip returns and the request is answered: its record becomes last
Return(r, q) ==
    /\ req' = [req EXCEPT ![r] = Gone]
    /\ last' = [q EXCEPT !.pc = "done", !.status = ErrorHandler(q.result), !.at = now]

\* a request goes on; when it goes into the refresh call of ensureToken, the
\* requests that have not had the mutex yet are waiting for it
Goto(r, q) ==
    /\ req' = [u \in Reqs |->
                 IF u = r THEN q
                 ELSE IF q.pc = "e_call" /\ req[u].pc = "director"
                 THEN [req[u] EXCEPT !.waited = TRUE]
                 ELSE req[u]]
    /\ last' = last

\* ----------------------------------------------------------- retry transport
\* tokenErrorTransport.RoundTrip, line 29: an augmentation error is on the context
StashedIgnored(ctxErr) == FALSE
Stashed(ctxErr) == ctxErr # NoErr

\* tokenRetryTransport.RoundTrip, lines 143-150: the first dispatch failed, or was
\* answered with a status other than 401
FirstIsFinalOnlyOK(o) == o.kind = "resp" /\ o.status = StatusOK
FirstIsFinal(o) == o.kind = "err" \/ o.status # StatusUnauthorized

\* tokenRetryTransport.RoundTrip, line 164: the body can be sent again
ReplayableAlways(body, getBody) == TRUE
Replayable(body, getBody) == ~(body \notin {"nil", "NoBody"} /\ getBody = "nil")

\* tokenRetryTransport.RoundTrip, line 187: the replay's outcome is returned
AfterReplayRetry(o) ==
    IF o.kind = "resp" /\ o.status = StatusUnauthorized THEN "f_lock" ELSE "done"
AfterReplay(o) == "done"

\* tokenRetryTransport.RoundTrip, line 186: the replay carries the new credential
ReplayHeaderStale(q) == q.hdr
ReplayHeader(q) == Bearer(q.forced)

\* tokenRetryTransport.RoundTrip, lines 168-171: forceRefresh failed
ForceFailureHidden(first, err) == first
ForceFailure(first, err) == Fail(err)

\* the Authorization header of a dispatched request carries no credential
BlankHeader(hdr) == hdr = NoHeader \/ AllSpaces(hdr[2])

\* tokenRetryTransport.RoundTrip, lines 142-166, with tokenErrorTransport.RoundTrip
\* (lines 28-33) as its base, for the request q as the Director left it.  It reads
\* and writes nothing shared, so it is part of the step that ends the Director.
\* Body and GetBody are inputs no step changes.  They are read at line 164, after a
\* rejection, and the shape is drawn there; a request that goes on to the forced
\* refresh is known to be replayable, and which replayable shape it has is drawn
\* where GetBody is read again (line 177).
RoundTrip_First(r, q) ==
    IF Stashed(q.ctxErr)
    THEN Return(r, [q EXCEPT !.result = Fail(q.ctxErr)])
    ELSE \E o \in TransportOutcomes(q.hdr) :
        LET d == [q EXCEPT !.dispatches = @ + 1, !.first = o,
                           !.fault = (@ \/ o # Backend(q.hdr)),
                           !.sentBlank = (@ \/ BlankHeader(q.hdr))]
        IN  IF FirstIsFinal(o)
            THEN Return(r, [d EXCEPT !.result = o])
            ELSE IF q.marked \/ refreshKind = "none"
            THEN Return(r, [d EXCEPT !.result = o])
            ELSE \E sh \in Shapes :
                    IF ~Replayable(sh[1], sh[2])
                    THEN Return(r, [d EXCEPT !.body = sh[1], !.getBody = sh[2],
                                             !.result = o])
                    ELSE Goto(r, [d EXCEPT !.pc = "f_lock"])

\* tokenRetryTransport.RoundTrip, lines 173-187: the replay, for the request q as
\* forceRefresh left it
RoundTrip_Replay(r, q0) ==
    \E sh \in {x \in Shapes : Replayable(x[1], x[2])} :
    \E g \in IF sh[2] = "nil" THEN {"none"} ELSE Regenerations :
        LET q == [q0 EXCEPT !.firstClosed = TRUE, !.marked = TRUE,
                            !.body = sh[1], !.getBody = sh[2], !.regen = g]
            n == [q EXCEPT !.hdr = ReplayHeader(q)]
        IN  IF g = "fail"
            THEN Return(r, [q EXCEPT !.result = Fail(ErrGetBody)])
            ELSE IF Stashed(n.ctxErr)
            THEN Return(r, [n EXCEPT !.result = Fail(n.ctxErr)])
            ELSE \E o \in TransportOutcomes(n.hdr) :
                LET d == [n EXCEPT !.dispatches = @ + 1, !.result = o,
                                   !.fault = (@ \/ o # Backend(n.hdr)),
                                   !.sentBlank = (@ \/ BlankHeader(n.hdr))]
                IN  IF AfterReplay(o) = "done"
                    THEN Return(r, d)
                    ELSE Goto(r, [d EXCEPT !.pc = AfterReplay(o)])

\* ---------------------------------------------------------------- requests
\* Director, lines 250-260: ensureToken (lines 83-98, 110) returns, and the request
\* goes through the transports, or ensureToken calls p.refresh
Director(r) ==
    /\ req[r].pc = "director"
    /\ \A s \in Reqs : s < r => req[s].pc # "director"   \* numbered as they arrive
    /\ MuLock(mu)
    /\ LET q == [req[r] EXCEPT !.seenOK = (<<token, refreshAt>> \in FullPairs)]
       IN  IF refreshKind = "none"
           THEN /\ mu' = mu
                /\ IF Blank(token)
                   THEN RoundTrip_First(r, [q EXCEPT !.ctxErr = ErrTokenEmpty,
                                                     !.hit = "empty"])
                   ELSE RoundTrip_First(r, [q EXCEPT !.hdr = Bearer(token),
                                                     !.hit = "hit"])
           ELSE IF Stale(q, token, refreshAt, now)
           THEN /\ mu' = r
                /\ Goto(r, [q EXCEPT !.pc = "e_call", !.hit = "miss",
                                     !.refreshCalls = @ + 1])
           ELSE /\ mu' = mu
                /\ RoundTrip_First(r, [q EXCEPT !.hdr = Bearer(token), !.hit = "hit"])
    /\ UNCHANGED <<token, refreshAt, committed, lastInstall, config, clock, aside>>

\* ensureToken, lines 99-107: p.refresh returns.  A failure is stashed on the
\* request's context (line 255) and the request goes through the transports; else
\* setWithExpiry (lines 64-79) writes refreshAt
ensureToken_Refreshed(r) ==
    /\ req[r].pc = "e_call"
    /\ \E res \in RefreshResults(refreshKind) :
         LET q == [req[r] EXCEPT !.blank = BlankResult(res)]
         IN  IF res.err # NoErr
             THEN /\ mu' = MuUnlock(mu)
                  /\ RoundTrip_First(r, [q EXCEPT !.ctxErr = res.err])
                  /\ refreshAt' = FailedRefreshAt(refreshAt)
                  /\ UNCHANGED lastInstall
             ELSE IF TrimSpace(res.tok) = <<>>
             THEN /\ mu' = MuUnlock(mu)
                  /\ RoundTrip_First(r, [q EXCEPT !.ctxErr = ErrTokenEmpty])
                  /\ refreshAt' = FailedRefreshAt(refreshAt)
                  /\ UNCHANGED lastInstall
             ELSE /\ mu' = mu
                  /\ refreshAt' = RefreshAtFor(now, res.ttl)
                  /\ lastInstall' = <<res.ttl>>
                  /\ Goto(r, [q EXCEPT !.pc = "e_tok", !.newTok = TrimSpace(res.tok)])
    /\ UNCHANGED <<token, committed, config, clock, aside>>

\* setWithExpiry, line 80, then ensureToken's return of p.token (line 110), the
\* Director's header (line 259) and the transports
ensureToken_Installed(r) ==
    /\ req[r].pc = "e_tok"
    /\ token' = req[r].newTok
    /\ committed' = <<token', refreshAt>>
    /\ mu' = MuUnlock(mu)
    /\ RoundTrip_First(r, [req[r] EXCEPT !.hdr = Bearer(token'), !.newTok = <<>>])
    /\ UNCHANGED <<refreshAt, lastInstall, config, clock, aside>>

\* forceRefresh, lines 113-121: up to the call of p.refresh
forceRefresh_Lock(r) ==
    /\ req[r].pc = "f_lock"
    /\ IF refreshKind = "none"
       THEN /\ Return(r, [req[r] EXCEPT !.result = Fail(ErrRefreshNotConfigured)])
            /\ mu' = mu
       ELSE /\ MuLock(mu)
            /\ IF ForceRefreshCalls(token, refreshAt, now)
               THEN /\ mu' = r
                    /\ Goto(r, [req[r] EXCEPT !.pc = "f_call", !.refreshCalls = @ + 1,
                                              !.forceCalls = @ + 1])
               ELSE /\ mu' = mu
                    /\ RoundTrip_Replay(r, [req[r] EXCEPT !.forced = token])
    /\ UNCHANGED <<token, refreshAt, committed, lastInstall, config, clock, aside>>

\* forceRefresh, lines 121-131: p.refresh returns.  A failure ends RoundTrip (lines
\* 168-171); else setWithExpiry (lines 64-79) writes refreshAt
forceRefresh_Refreshed(r) ==
    /\ req[r].pc = "f_call"
    /\ \E res \in RefreshResults(refreshKind) :
         LET q == [req[r] EXCEPT !.blank = BlankResult(res)]
         IN  IF res.err # NoErr
             THEN /\ mu' = MuUnlock(mu)
                  /\ Return(r, [q EXCEPT !.ferr = res.err,
                                         !.result = ForceFailure(q.first, res.err)])
                  /\ refreshAt' = FailedRefreshAt(refreshAt)
                  /\ UNCHANGED lastInstall
             ELSE IF TrimSpace(res.tok) = <<>>
             THEN /\ mu' = MuUnlock(mu)
                  /\ Return(r, [q EXCEPT !.ferr = ErrTokenEmpty,
                                         !.result = ForceFailure(q.first, ErrTokenEmpty)])
                  /\ refreshAt' = FailedRefreshAt(refreshAt)
                  /\ UNCHANGED lastInstall
             ELSE /\ mu' = mu
                  /\ refreshAt' = RefreshAtFor(now, res.ttl)
                  /\ lastInstall' = <<res.ttl>>
                  /\ Goto(r, [q EXCEPT !.pc = "f_tok", !.newTok = TrimSpace(res.tok)])
    /\ UNCHANGED <<token, committed, config, clock, aside>>

\* setWithExpiry, line 80, then forceRefresh's return of the new token (line 132)
\* and the replay
forceRefresh_Installed(r) ==
    /\ req[r].pc = "f_tok"
    /\ token' = req[r].newTok
    /\ committed' = <<token', refreshAt>>
    /\ mu' = MuUnlock(mu)
    /\ RoundTrip_Replay(r, [req[r] EXCEPT !.forced = req[r].newTok, !.newTok = <<>>])
    /\ UNCHANGED <<refreshAt, lastInstall, config, clock, aside>>

\* ------------------------------------------------------------------- others
\* current, lines 51-55
current ==
    /\ MuLock(mu)
    /\ curOK' = (curOK /\ token \in {p[1] : p \in FullPairs})
    /\ UNCHANGED <<provider, config, clock, req, last, bIn, bOut>>

\* the instants the clock may jump to
TickTargets ==
    IF refreshAt = 0 THEN {now + 3600 * Second}
    ELSE {t \in {refreshAt, refreshAt + 1} : t > now}

Tick ==
    /\ ticks < MaxTicks
    /\ \E t \in TickTargets : now' = t
    /\ ticks' = ticks + 1
    /\ UNCHANGED <<provider, config, req, last, aside>>

Next ==
    \/ \E r \in Reqs : Director(r)
    \/ \E r \in Reqs : ensureToken_Refreshed(r)
    \/ \E r \in Reqs : ensureToken_Installed(r)
    \/ \E r \in Reqs : forceRefresh_Lock(r)
    \/ \E r \in Reqs : forceRefresh_Refreshed(r)
    \/ \E r \in Reqs : forceRefresh_Installed(r)
    \/ current
    \/ Tick

Spec == Init /\ [][Next]_vars

\* every call of the refresh function and of the backend returns, and a request
\* waiting for the mutex gets it after finitely many releases
Fairness ==
    \A r \in Reqs :
        /\ SF_vars(Director(r))
        /\ SF_vars(forceRefresh_Lock(r))
        /\ WF_vars(ensureToken_Refreshed(r))
        /\ WF_vars(ensureToken_Installed(r))
        /\ WF_vars(forceRefresh_Refreshed(r))
        /\ WF_vars(forceRefresh_Installed(r))

SpecFair == Spec /\ Fairness

\* ------------------------------------------------- buffer specification
\* setWithExpiry applied once to a fresh provider, for every lifetime tried
TTLInputs == (-2 .. MaxTTLIn) \cup {k * Second : k \in 1 .. MaxTTLSeconds}

InitBuf ==
    /\ refreshKind = "url"
    /\ fetched = "none"
    /\ token = <<>>
    /\ refreshAt = 0
    /\ mu = 0
    /\ now = 1
    /\ ticks = 0
    /\ req = [r \in Reqs |-> NewRequest]
    /\ last = NewRequest
    /\ committed = <<token, refreshAt>>
    /\ lastInstall = <<>>
    /\ curOK = TRUE
    /\ bIn \in TTLInputs
    /\ bOut = 0

\* setWithExpiry, lines 63-81, as one step
setWithExpiry ==
    /\ lastInstall = <<>>
    /\ bOut' = IF bIn > 0 THEN Buffer(bIn) ELSE 0
    /\ refreshAt' = RefreshAtFor(now, bIn)
    /\ token' = <<"b">>
    /\ committed' = <<token', refreshAt'>>
    /\ lastInstall' = <<bIn>>
    /\ UNCHANGED <<mu, config, clock, req, last, curOK, bIn>>

NextBuf == setWithExpiry

SpecBuf == InitBuf /\ [][NextBuf]_vars

\* ================================================================== claims
Answered == last.pc = "done"
Rejected(o) == o.kind = "resp" /\ o.status = StatusUnauthorized
InRefresh == {"e_call", "e_tok", "f_call", "f_tok"}

\* C1: a request is dispatched at most twice and forces at most one refresh; after
\* the second dispatch RoundTrip has returned, and what it returned is the answer to
\* that dispatch, a further rejection included.
C1_AtMostOneReplay ==
    /\ \A r \in Reqs : req[r].dispatches <= 1 /\ req[r].forceCalls <= 1
    /\ last.dispatches <= 2
    /\ last.forceCalls <= 1
    /\ last.dispatches = 2 =>
         /\ last.result \in TransportOutcomes(last.hdr)
         /\ last.status = ErrorHandler(last.result)

\* C1 witness: the replay itself was rejected and the rejection was returned
C1_Witness ==
    /\ Answered
    /\ last.dispatches = 2
    /\ last.forceCalls = 1
    /\ Rejected(last.first)
    /\ Rejected(last.result)
    /\ last.status = StatusUnauthorized

\* C2: once ensureToken has failed for a request, the backend is never dispatched
\* for it, no refresh is forced, and the caller is answered 502 for the stashed error.
C2_EnsureFailureNeverDispatched ==
    /\ \A r \in Reqs : req[r].ctxErr = NoErr
    /\ last.ctxErr # NoErr =>
         /\ last.dispatches = 0
         /\ last.forceCalls = 0
         /\ last.result = Fail(last.ctxErr)
         /\ last.status = StatusBadGateway

\* C2 witness: a request whose credential acquisition failed has been answered
C2_Witness ==
    /\ Answered
    /\ last.ctxErr = ErrTokenEmpty
    /\ last.dispatches = 0
    /\ last.status = StatusBadGateway

\* C3: a rejected request with a non-empty body and no GetBody is dispatched once,
\* forces no refresh, and is answered with the rejection of that dispatch.
C3_UnreplayableBodyNotReplayed ==
    (last.body = "data" /\ last.getBody = "nil") =>
        /\ last.dispatches = 1
        /\ last.forceCalls = 0
        /\ last.result = last.first
        /\ Rejected(last.result)
        /\ last.status = StatusUnauthorized

\* C3 witness: such a request was rejected although a refresh function is configured
C3_Witness ==
    /\ Answered
    /\ refreshKind # "none"
    /\ last.body = "data"
    /\ last.getBody = "nil"
    /\ Rejected(last.result)

\* the case of C4: the credential came from the cache, the backend rejected it, the
\* body can be regenerated, the forced refresh returned a credential the backend
\* accepts, and the transport did not fail
C4_Case ==
    /\ Answered
    /\ last.hit = "hit"
    /\ Rejected(last.first)
    /\ refreshKind # "none"
    /\ last.body \in {"nil", "NoBody"} \/ last.getBody = "set"
    /\ last.regen # "fail"
    /\ last.forced \in Accepted
    /\ ~last.fault

\* C4: in that case the caller sees 200, the backend was dispatched twice, the
\* refresh function was called once, and the second dispatch carried the forced
\* refresh's credential.
C4_RefreshAndReplaySucceeds ==
    C4_Case =>
        /\ last.result = Resp(StatusOK)
        /\ last.status = StatusOK
        /\ last.dispatches = 2
        /\ last.refreshCalls = 1
        /\ last.forceCalls = 1
        /\ last.hdr = Bearer(last.forced)

\* C4 witness: the scenario of TestProxyRefreshesTokenOnUnauthorized
C4_Witness ==
    /\ C4_Case
    /\ fetched = "token"
    /\ refreshKind = "url"
    /\ last.status = StatusOK

FailedEmpty == last.result.kind = "err" /\ EmptyCredential(last.result.err)

\* C5 as claimed: a blank initial fetch or a blank refresh result makes the request
\* fail with EmptyCredential, and no dispatch carries an empty credential.
C5_Original ==
    /\ ~last.sentBlank
    /\ \A r \in Reqs : ~req[r].sentBlank
    /\ (Answered /\ (fetched = "blank" \/ last.blank)) => FailedEmpty

\* C5 as amended: a blank refresh result makes the request fail with
\* EmptyCredential; a blank initial fetch does so when no refresh function is
\* configured; no dispatch carries an empty credential.
C5_Amended ==
    /\ ~last.sentBlank
    /\ \A r \in Reqs : ~req[r].sentBlank
    /\ (Answered /\ last.blank) => FailedEmpty
    /\ (Answered /\ fetched = "blank" /\ refreshKind = "none") =>
           /\ FailedEmpty
           /\ last.dispatches = 0

\* C5 witness: a forced refresh returned a blank credential and the request failed
C5_Witness ==
    /\ Answered
    /\ last.blank
    /\ last.forceCalls = 1
    /\ last.result = Fail(ErrTokenEmpty)

\* C6: at most one request is inside a refresh call or a cache update, and it is
\* the one holding the lock.
C6_OneRefreshInFlight ==
    /\ Cardinality({r \in Reqs : req[r].pc \in InRefresh}) <= 1
    /\ \A r \in Reqs : req[r].pc \in InRefresh => mu = r

\* C6 witness: a forced refresh is in flight while another request wants the lock
C6_Witness ==
    \E r, s \in Reqs :
        /\ r # s
        /\ req[r].pc = "f_call"
        /\ req[s].pc \in {"director", "f_lock"}

\* C7: whatever ensureToken or current read was the pair before the update or the
\* pair after it.
C7_NoTornRead ==
    /\ curOK
    /\ last.seenOK
    /\ \A r \in Reqs : req[r].seenOK

\* C7 witness: an update has written refreshAt and not yet the token, the two differ
\* from the pair before, and a reader is about to call ensureToken
C7_Witness ==
    \E r, s \in Reqs :
        /\ r # s
        /\ req[s].pc \in {"e_tok", "f_tok"}
        /\ refreshAt # committed[2]
        /\ token # req[s].newTok
        /\ req[r].pc = "director"

\* the cache as ensureToken finds it: a token, and the deadline not passed
Fresh == ~Blank(token) /\ (refreshAt = 0 \/ now <= refreshAt)

\* the request r as ensureToken's caller has it after the step
After(r) == IF req'[r].pc = "gone" THEN last' ELSE req'[r]

\* C8: with a refresh function configured, an ensureToken call that finds a token
\* in the cache and the clock not after refreshAt calls no refresh, changes nothing
\* in the cache and returns the cached token.
C8_CacheHitNoRefresh ==
    [][\A r \in Reqs :
          (req[r].pc = "director" /\ req'[r].pc # "director" /\ refreshKind # "none"
             /\ Fresh) =>
              /\ After(r).hit = "hit"
              /\ After(r).refreshCalls = 0
              /\ After(r).dispatches = 1
              /\ After(r).ctxErr = NoErr
              /\ After(r).hdr = Bearer(token)
              /\ UNCHANGED <<token, refreshAt>>]_vars

\* C8 witness: an earlier call filled the cache, and a request arriving exactly at
\* refreshAt was sent with the cached token without a refresh
C8_Witness ==
    /\ Answered
    /\ refreshKind # "none"
    /\ lastInstall # <<>>
    /\ refreshAt # 0
    /\ last.at = refreshAt
    /\ last.hit = "hit"
    /\ last.dispatches = 1
    /\ last.refreshCalls = 0
    /\ last.hdr = Bearer(token)

\* the last install had a lifetime <= 0
InstalledForever == lastInstall # <<>> /\ lastInstall[1] <= 0

\* C9: after an install with ttl <= 0 refreshAt is the zero time, and whatever the
\* clock shows, an ensureToken call that finds a token calls no refresh.
C9_NeverExpires ==
    /\ [](InstalledForever => refreshAt = 0)
    /\ [][\A r \in Reqs :
            (req[r].pc = "director" /\ req'[r].pc # "director" /\ InstalledForever
               /\ ~Blank(token)) =>
                /\ After(r).hit = "hit"
                /\ After(r).refreshCalls = 0
                /\ After(r).hdr = Bearer(token)]_vars

\* C9 witness: an hour after an install with ttl <= 0 was completed, a request was
\* sent with the cached token
C9_Witness ==
    /\ Answered
    /\ InstalledForever
    /\ refreshKind # "none"
    /\ mu = 0
    /\ committed = <<token, 0>>
    /\ last.hit = "hit"
    /\ last.dispatches = 1
    /\ last.at >= 3600 * Second
    /\ last.hdr = Bearer(token)

\* C11: forceRefresh calls the refresh function whatever the cache holds: a request
\* that reaches forceRefresh takes the lock and calls p.refresh, its own call, also
\* when another request's forced refresh has just installed a fresh token; the calls
\* are made one at a time, by the holder of the lock.
C11_ForcedRefreshNotDeduplicated ==
    /\ [](\A r \in Reqs :
            req[r].pc \in {"f_call", "f_tok"} =>
                /\ req[r].forceCalls = 1
                /\ mu = r
                /\ \A s \in Reqs \ {r} : req[s].pc \notin InRefresh)
    /\ [](last.dispatches = 2 => last.forceCalls = 1)
    /\ [][\A r \in Reqs :
            (req[r].pc = "f_lock" /\ req'[r].pc # "f_lock") =>
                /\ mu = 0
                /\ mu' = r
                /\ req'[r].pc = "f_call"
                /\ req'[r].forceCalls = req[r].forceCalls + 1
                /\ req'[r].refreshCalls = req[r].refreshCalls + 1]_vars

\* C11 witness: a forced refresh has installed a token that is fresh, its request has
\* been answered, and another rejected request is inside its own refresh call
C11_Witness ==
    \E r \in Reqs :
        /\ req[r].pc = "f_call"
        /\ req[r].forceCalls = 1
        /\ req[r].hdr # Bearer(token)
        /\ Answered
        /\ last.forceCalls = 1
        /\ last.forced = token
        /\ committed = <<token, refreshAt>>
        /\ Fresh

\* C12: when forceRefresh fails, the request is not dispatched a second time and the
\* caller gets the refresh error, rendered as 502, and not the rejection.
C12_ForceFailureAbortsRetry ==
    /\ \A r \in Reqs : req[r].ferr = NoErr
    /\ last.ferr # NoErr =>
         /\ last.dispatches = 1
         /\ last.forceCalls = 1
         /\ Rejected(last.first)
         /\ last.result = Fail(last.ferr)
         /\ last.status = StatusBadGateway

\* C12 witness: the token endpoint answered the forced refresh with a non-200 status
C12_Witness ==
    /\ Answered
    /\ last.ferr = ErrRefreshNon200
    /\ last.forceCalls = 1
    /\ Rejected(last.first)
    /\ last.status = StatusBadGateway

\* C13: every request is answered with a response or an error, the mutex is always
\* freed again, and no request is dispatched more than twice.
C13_EveryRequestResolves ==
    /\ \A r \in Reqs : <>[](req[r].pc = "gone")
    /\ []<>(mu = 0)
    /\ [](Answered => last.result.kind \in {"resp", "err"} /\ last.dispatches <= 2)
    /\ [](\A r \in Reqs : req[r].dispatches <= 1)

\* C13 witness: every request has been answered, the last one after waiting for the
\* mutex twice and after its one replay
C13_Witness ==
    /\ \A r \in Reqs : req[r].pc = "gone"
    /\ mu = 0
    /\ last.hit = "miss"
    /\ last.refreshCalls = 2
    /\ last.dispatches = 2
    /\ last.result.kind \in {"resp", "err"}

\* a credential: not empty, and no white space at either end
Trimmed(s) == s # <<>> /\ s[1] # SP /\ s[Len(s)] # SP

\* the credentials a request holds: the one set on its header, the one its refresh is
\* installing, the one its forced refresh returned
Credentials(q) ==
    {q.newTok, q.forced} \cup (IF q.hdr = NoHeader THEN {} ELSE {q.hdr[2]})

\* C14: the cached token is unset or a trimmed non-blank string, it is set once an
\* install has been completed, and every credential ensureToken or forceRefresh
\* returned is a trimmed non-blank string.
C14_TokensTrimmed ==
    /\ token = <<>> \/ Trimmed(token)
    /\ (lastInstall # <<>> /\ mu = 0) => Trimmed(token)
    /\ \A r \in Reqs : \A c \in Credentials(req[r]) : c = <<>> \/ Trimmed(c)
    /\ \A c \in Credentials(last) : c = <<>> \/ Trimmed(c)
    /\ last.hit \in {"hit", "miss"} /\ last.ctxErr = NoErr => Trimmed(last.hdr[2])
    /\ last.dispatches = 2 => Trimmed(last.forced)

\* C14 witness: the refresh function returned a token followed by white space, and
\* what was cached and sent is the token without it
C14_Witness ==
    /\ Answered
    /\ mu = 0
    /\ lastInstall # <<>>
    /\ token = <<"c">>
    /\ last.hit = "miss"
    /\ last.hdr = Bearer(<<"c">>)

\* C15: with a refresh function configured, an ensureToken call calls the refresh
\* function exactly when the cache is empty or refreshAt is not the zero time and the
\* clock is after it; otherwise it returns the cached token.
C15_RefreshIffEmptyOrExpired ==
    [][\A r \in Reqs :
          (req[r].pc = "director" /\ req'[r].pc # "director" /\ refreshKind # "none") =>
              /\ (req'[r].pc = "e_call" /\ req'[r].refreshCalls = 1)
                    <=> (token = <<>> \/ (refreshAt # 0 /\ now > refreshAt))
              /\ req'[r].pc # "e_call" =>
                    /\ After(r).refreshCalls = 0
                    /\ After(r).hdr = Bearer(token)]_vars

\* C15 witness: a token is cached, the clock is one tick after refreshAt, and a
\* request is inside the refresh call ensureToken made for it
C15_Witness ==
    \E r \in Reqs :
        /\ req[r].pc = "e_call"
        /\ req[r].refreshCalls = 1
        /\ mu = r
        /\ token # <<>>
        /\ refreshAt # 0
        /\ now = refreshAt + 1

\* C16: a request whose first dispatch failed or was answered with a status other
\* than 401 is answered with that outcome after one dispatch, with no forced refresh;
\* only a rejected request is ever in forceRefresh.
C16_NoRetryUnlessRejected ==
    /\ \A r \in Reqs :
          req[r].pc \in {"f_lock", "f_call", "f_tok"} =>
              /\ Rejected(req[r].first)
              /\ req[r].dispatches = 1
    /\ (last.dispatches >= 1 /\ ~Rejected(last.first)) =>
          /\ last.dispatches = 1
          /\ last.forceCalls = 0
          /\ last.forced = <<>>
          /\ ~last.marked
          /\ last.result = last.first
          /\ last.status = ErrorHandler(last.first)

\* C16 witness: with a refresh function configured the backend answered 500, and
\* that is what the caller got
C16_Witness ==
    /\ Answered
    /\ refreshKind # "none"
    /\ last.first = Resp(StatusInternalServerError)
    /\ last.dispatches = 1
    /\ last.forceCalls = 0
    /\ last.status = StatusInternalServerError

\* C17: for every lifetime ttl > 0 the buffer b is at least 0 and less than ttl, and
\* the deadline is after the instant of the install and not after now + ttl.
C17_BufferWithinLifetime ==
    (lastInstall # <<>> /\ bIn > 0) =>
        /\ 0 <= bOut
        /\ bOut < bIn
        /\ refreshAt = (now + bIn) - bOut
        /\ now < refreshAt
        /\ refreshAt <= now + bIn

\* C17 witness: the shortest lifetime, one tick, gets the buffer 0 and the deadline
\* now + 1
C17_Witness ==
    /\ lastInstall = <<1>>
    /\ bOut = 0
    /\ refreshAt = now + 1

\* C18: when the refresh function returns an error or a blank credential, in
\* ensureToken or in forceRefresh, the call ends with token and refreshAt as they
\* were, and the mutex free.
C18_FailedRefreshKeepsCache ==
    [][\A r \in Reqs :
          (req[r].pc \in {"e_call", "f_call"} /\ req'[r].pc \notin {"e_call", "f_call"}
             /\ req'[r].pc \notin {"e_tok", "f_tok"}) =>
              /\ req'[r].pc = "gone"
              /\ last'.result.kind = "err"
              /\ last'.dispatches = req[r].dispatches
              /\ mu' = 0
              /\ UNCHANGED <<token, refreshAt, committed, lastInstall>>]_vars

\* C18 witness: a forced refresh failed, and the cache still holds the credential
\* the backend rejected, with its deadline
C18_Witness ==
    /\ Answered
    /\ last.ferr # NoErr
    /\ last.hit = "hit"
    /\ mu = 0
    /\ last.hdr = Bearer(token)
    /\ refreshAt # 0
    /\ committed = <<token, refreshAt>>

\* C19: a request that was waiting for the mutex while another request's ensureToken
\* called the refresh function, and that finds the token installed and its deadline
\* not passed when it gets the mutex, calls no refresh and is sent with the cached
\* token.
C19_WaitingCallersCoalesce ==
    [][\A r \in Reqs :
          (req[r].pc = "director" /\ req'[r].pc # "director" /\ req[r].waited
             /\ refreshKind # "none" /\ Fresh) =>
              /\ After(r).hit = "hit"
              /\ After(r).refreshCalls = 0
              /\ After(r).hdr = Bearer(token)
              /\ UNCHANGED <<token, refreshAt, lastInstall>>]_vars

\* C19 witness: the proxy started with an empty cache, one request's ensureToken
\* filled it while another waited, and the one that waited was sent with the
\* installed token without a refresh of its own
C19_Witness ==
    /\ Answered
    /\ fetched = "none"
    /\ lastInstall # <<>>
    /\ mu = 0
    /\ last.waited
    /\ last.hit = "hit"
    /\ last.refreshCalls = 0
    /\ last.dispatches = 1
    /\ last.hdr = Bearer(token)

\* C20 as claimed: a request that went on to forceRefresh after its rejection is not
\* answered with the rejected response, and that response's body has been closed
\* when RoundTrip returns.
C20_Original ==
    (Answered /\ last.forceCalls = 1) => last.firstClosed

\* C20, what the code does: the rejected response's body has been closed when
\* RoundTrip returns exactly if forceRefresh succeeded, a failed GetBody included.
C20_ClosedUnlessForceFailed ==
    (Answered /\ last.forceCalls = 1) =>
        /\ last.firstClosed <=> last.ferr = NoErr
        /\ last.regen = "fail" => last.firstClosed
        /\ last.dispatches = 2 => last.firstClosed

\* C20 witness: the refresh call of forceRefresh failed, RoundTrip returned the
\* error, and the body of the rejected response was never closed
C20_Witness ==
    /\ Answered
    /\ Rejected(last.first)
    /\ last.forceCalls = 1
    /\ last.ferr = ErrIO
    /\ last.result = Fail(ErrIO)
    /\ ~last.firstClosed

\* C10 as claimed: for 0 < ttl < 2 s the buffer is ttl/2.
C10_Original ==
    (lastInstall # <<>> /\ 0 < bIn /\ bIn < 2 * Second) => bOut = bIn \div 2

\* C10 as amended: for 0 < ttl < 2 s the buffer is ttl/10 when that quotient is
\* positive, and ttl/2 otherwise.
C10_Amended ==
    (lastInstall # <<>> /\ 0 < bIn /\ bIn < 2 * Second) =>
        /\ bOut = IF bIn \div 10 > 0 THEN bIn \div 10 ELSE bIn \div 2
        /\ refreshAt = (now + bIn) - bOut

\* C10 witness: a lifetime of one second got a buffer of a tenth of a second
C10_Witness ==
    /\ lastInstall = <<Second>>
    /\ bOut = Second \div 10
    /\ refreshAt = (now + Second) - Second \div 10

====
